---- MODULE Spec2Model ----
(***************************************************************************)
(* A model of ftp_sync.py: main() and the recursive process_directory().   *)
(* Strings are sequences of one-character strings, so that endswith,       *)
(* lstrip, replace, split and os.path.join are computed character by       *)
(* character.  The FTP server is the environment: it answers cwd, dir,     *)
(* retr and dele, and any of these calls may raise.  The remote tree is    *)
(* revealed listing by listing, as the program sees it.                    *)
(***************************************************************************)
EXTENDS Integers, Sequences, FiniteSets, TLC

\* ---- bounds ----
MaxFiles == 2     \* file lines the server lists over one run
MaxDirs  == 1     \* subdirectory lines the server lists over one run

\* ---- strings ----
Names == { <<"a">>, <<"a", "_", "a">> }     \* remote file names
DirNames == { <<"a">> }                     \* remote directory names
SpacedNames == { <<"a">>, <<"a", " ", "a">> }  \* file names of the server that lists like "ls -la"
RawRemoteDirs == { <<"/">>, <<"r">>, <<"/", "/", "r">> }   \* values of --remote-dir
LocalRoots == { <<"o">>, <<"o", "/">> }                    \* values of --local-dir
RemoteSizes == {0, 1}                                      \* an empty and a non-empty file
MaxSegs == 3      \* names below the root in a remote path handed to the flatten mapping
PathNames == { <<"a">>, <<"b">>, <<"a", "_", "b">> }       \* names of remote files and directories

StartsWith(s, c) == Len(s) > 0 /\ s[1] = c
EndsWith(s, c) == Len(s) > 0 /\ s[Len(s)] = c

RECURSIVE LStrip(_, _)
LStrip(s, c) == IF StartsWith(s, c) THEN LStrip(Tail(s), c) ELSE s

Replace(s, a, b) == [i \in 1..Len(s) |-> IF s[i] = a THEN b ELSE s[i]]

\* str.split(sep): every field, empty ones included
RECURSIVE SplitAcc(_, _, _)
SplitAcc(s, sep, cur) ==
    IF s = <<>> THEN <<cur>>
    ELSE IF Head(s) = sep THEN <<cur>> \o SplitAcc(Tail(s), sep, <<>>)
    ELSE SplitAcc(Tail(s), sep, Append(cur, Head(s)))

Split(s, sep) == SplitAcc(s, sep, <<>>)

NonEmpty(t) == t # <<>>

\* str.split() with no argument: runs of whitespace separate the tokens
Tokens(s) == SelectSeq(Split(s, " "), NonEmpty)

RECURSIVE JoinWith(_, _)
JoinWith(toks, sep) ==
    IF toks = <<>> THEN <<>>
    ELSE IF Len(toks) = 1 THEN toks[1]
    ELSE toks[1] \o <<sep>> \o JoinWith(Tail(toks), sep)

\* os.path.join(a, b) on POSIX
OsPathJoin(a, b) ==
    IF StartsWith(b, "/") THEN b
    ELSE IF a = <<>> \/ EndsWith(a, "/") THEN a \o b
    ELSE a \o <<"/">> \o b

\* ---- process_directory: the pure parts ----
\* line 36-40
FileName(item) == JoinWith(SubSeq(Tokens(item), 9, Len(Tokens(item))), " ")

\* the bug of filtering on the token count only
SkippedShort(item) == Len(Tokens(item)) < 9

\* lines 37-38 and 43-44: the entry is skipped
Skipped(item) ==
    \/ Len(Tokens(item)) < 9
    \/ FileName(item) \in { <<".">>, <<".", ".">> }

\* line 53
IsDirItem(item) == StartsWith(item, "d")

\* lines 47-50
RemotePath(remote_dir, file_name) ==
    IF EndsWith(remote_dir, "/") THEN remote_dir \o file_name
    ELSE remote_dir \o <<"/">> \o file_name

\* the bug of flattening to the file's own name
SafeRemotePathBase(remote_path) == Split(remote_path, "/")[Len(Split(remote_path, "/"))]

\* line 69
SafeRemotePath(remote_path) == Replace(LStrip(remote_path, "/"), "/", "_")

\* the bug of flattening without the directory part of the name
LocalPathName(flatten, local_dir, remote_path, file_name) == OsPathJoin(local_dir, file_name)

\* lines 66-72
LocalPath(flatten, local_dir, remote_path, file_name) ==
    IF flatten THEN OsPathJoin(local_dir, SafeRemotePath(remote_path))
    ELSE OsPathJoin(local_dir, file_name)

\* the bug of descending locally in flatten mode as well
SubLocalPathJoin(flatten, local_dir, file_name) == OsPathJoin(local_dir, file_name)

\* the bug of recursing with the parent's local directory outside flatten mode
SubLocalPathSame(flatten, local_dir, file_name) == local_dir

\* lines 55-63: the local_dir handed to the recursive call
SubLocalPath(flatten, local_dir, file_name) ==
    IF flatten THEN local_dir ELSE OsPathJoin(local_dir, file_name)

\* the bug of verifying existence only
VerifiedExists(exists, size) == exists

\* line 80
Verified(exists, size) == exists /\ size > 0

\* the bug of dropping the result of the recursive call
AfterChildIgnored(success, child) == success

\* lines 57-58, 62-63
AfterChild(success, child) == IF ~child THEN FALSE ELSE success

\* the bug of recursing with deletion switched on
SubDeleteRemoteAlways(delete_remote) == TRUE

\* lines 57 and 62: the flags handed to the recursive call
SubDeleteRemote(delete_remote) == delete_remote
SubFlatten(flatten) == flatten

\* line 81
DeleteWanted(delete_remote) == delete_remote

\* the bug of staying in the directory on leaving
ParentArgStay == <<".">>

\* line 99
ParentArg == <<".", ".">>

\* lines 117-118
CoerceRemoteDir(d) == IF ~StartsWith(d, "/") THEN <<"/">> \o d ELSE d

\* the bug of exiting with 0 whatever happened
ExitCodeZero(overall_success) == 0

\* lines 172-175
ExitCode(overall_success) == IF overall_success THEN 0 ELSE 1

\* ---- the FTP server ----
\* a remote location is the sequence of its path segments
Segments(p) == SelectSeq(Split(p, "/"), NonEmpty)

RECURSIVE Walk(_, _)
Walk(cur, segs) ==
    IF segs = <<>> THEN cur
    ELSE IF Head(segs) = <<".", ".">>
         THEN Walk(IF cur = <<>> THEN cur ELSE SubSeq(cur, 1, Len(cur) - 1), Tail(segs))
    ELSE IF Head(segs) = <<".">> THEN Walk(cur, Tail(segs))
    ELSE Walk(Append(cur, Head(segs)), Tail(segs))

\* where a path argument of CWD/RETR/DELE leads from the current directory
FtpResolve(cur, arg) ==
    Walk(IF StartsWith(arg, "/") THEN <<>> ELSE cur, Segments(arg))

\* one line of LIST output for an entry: type flag, seven fields, the name
Filler == <<" ", "x", " ", "x", " ", "x", " ", "x", " ", "x", " ", "x", " ", "x", " ">>
FormatLine(e) ==
    IF e.kind = "total" THEN <<"t", " ", "x">>
    ELSE IF e.kind = "noname" THEN <<"-">> \o Filler
    ELSE <<(IF e.kind = "dir" THEN "d" ELSE "-")>> \o Filler \o e.name

FileEntries(ls) == [kind : {"file"}, name : IF ls THEN SpacedNames ELSE Names]
DirEntries == [kind : {"dir"}, name : DirNames]
RealEntries(ls) == FileEntries(ls) \cup DirEntries

\* what a server that lists like "ls -la" puts before the entries, and a
\* line of eight fields
JunkLines ==
    << [kind |-> "total", name |-> <<>>],
       [kind |-> "dir", name |-> <<".">>],
       [kind |-> "dir", name |-> <<".", ".">>],
       [kind |-> "noname", name |-> <<>>] >>

\* ---- state ----
VARIABLES
    args,             \* the parsed command line (line 114)
    mpc,              \* where main() is
    overall_success,  \* line 124
    exit_code,        \* -1 while the process runs
    stack,            \* the active calls of process_directory, root first
    srvCwd,           \* the connection's current remote directory
    remoteFiles,      \* remote files known to exist
    remoteDirs,       \* remote directories known to exist
    allFiles,         \* every remote file a listing has shown
    localFiles,       \* local files: segments of the path -> [src, bytes]
    localDirs,        \* local directories that exist
    log_file,         \* the lines written to the log
    trace,            \* history of the calls made, in order
    budget,           \* lines of each kind the server may still list
    lsAll,            \* the server lists "total", "." and ".." as well
    raisedDepth,      \* number of active frames an exception unwound, 0 if none
    probe             \* two remote paths and their flattened local paths (lines 47-70 alone)

runVars == <<args, mpc, overall_success, exit_code, stack, srvCwd, remoteFiles,
             remoteDirs, allFiles, localFiles, localDirs, log_file, trace, budget,
             lsAll, raisedDepth>>

vars == <<args, mpc, overall_success, exit_code, stack, srvCwd, remoteFiles,
          remoteDirs, allFiles, localFiles, localDirs, log_file, trace, budget,
          lsAll, raisedDepth, probe>>

NoPath == <<>>

Ev(op, rp, lp, at, target, ok, n) ==
    [op |-> op, rp |-> rp, lp |-> lp, at |-> at, target |-> target, ok |-> ok, n |-> n]

LogLine(msg, rp, lp) == [msg |-> msg, rp |-> rp, lp |-> lp]

\* the local variables of one call of process_directory (line 15)
Frame(remote_dir, local_dir, delete_remote, flatten) ==
    [remote_dir |-> remote_dir, local_dir |-> local_dir,
     delete_remote |-> delete_remote, flatten |-> flatten, success |-> TRUE,
     file_list |-> <<>>, i |-> 1, pc |-> "cwd", at |-> NoPath]

Depth == Len(stack)
Top == stack[Depth]
SetTop(f) == [stack EXCEPT ![Depth] = f]
At(pc) == mpc = "walk" /\ Depth > 0 /\ Top.pc = pc

Item == Top.file_list[Top.i]
CurName == FileName(Item)
CurRemotePath == RemotePath(Top.remote_dir, CurName)
CurLocalPath == LocalPath(Top.flatten, Top.local_dir, CurRemotePath, CurName)
CurEntry == Append(Top.at, CurName)

\* the loop goes on with the next item (line 34)
NextItem(f, success) == [f EXCEPT !.i = @ + 1, !.pc = "loop", !.success = success]

\* the state when main() starts, for a command line and a server
Start(argSet, lsSet) ==
    /\ args \in argSet
    /\ lsAll \in lsSet
    /\ mpc = "args"
    /\ overall_success = TRUE
    /\ exit_code = -1
    /\ stack = <<>>
    /\ srvCwd = <<>>
    /\ remoteFiles = {}
    /\ remoteDirs = {}
    /\ allFiles = {}
    /\ localFiles = [x \in {} |-> 0]
    /\ localDirs = {}
    /\ log_file = <<>>
    /\ trace = <<>>
    /\ budget = [files |-> MaxFiles, dirs |-> MaxDirs]
    /\ raisedDepth = 0

\* the paths of one comparison: p and q are remote paths built below the same
\* remote_dir, ps and qs the names appended, lp and lq their local paths
Probe(pc, local_dir, p, q, ps, qs, lp, lq) ==
    [pc |-> pc, local_dir |-> local_dir, p |-> p, q |-> q, ps |-> ps, qs |-> qs,
     lp |-> lp, lq |-> lq]

NoProbe == Probe("off", NoPath, NoPath, NoPath, <<>>, <<>>, NoPath, NoPath)

\* the default remote directory, every combination of the two flags
Init ==
    /\ Start([remote_dir : { <<"/">> }, local_dir : { <<"o">> },
              delete_remote : BOOLEAN, flatten : BOOLEAN], BOOLEAN)
    /\ probe = NoProbe

\* every remote and local root, both values of --flatten
InitPaths ==
    /\ Start([remote_dir : RawRemoteDirs, local_dir : LocalRoots,
              delete_remote : {TRUE}, flatten : BOOLEAN], {FALSE})
    /\ probe = NoProbe

\* the flatten mapping alone: both paths start at the remote_dir of the root call
InitFlatten ==
    /\ Start([remote_dir : { <<"/">> }, local_dir : { <<"o">> },
              delete_remote : {FALSE}, flatten : {TRUE}], {FALSE})
    /\ \E r \in RawRemoteDirs, l \in LocalRoots :
          probe = Probe("build", l, CoerceRemoteDir(r), CoerceRemoteDir(r),
                        <<>>, <<>>, NoPath, NoPath)

\* ---- main ----
\* lines 116-118
ParseArgs ==
    /\ mpc = "args"
    /\ args' = [args EXCEPT !.remote_dir = CoerceRemoteDir(@)]
    /\ mpc' = "ensure"
    /\ UNCHANGED <<probe, overall_success, exit_code, stack, srvCwd, remoteFiles, remoteDirs,
                   allFiles, localFiles, localDirs, log_file, trace, budget, lsAll, raisedDepth>>

\* line 121, ensure_local_dir succeeds
EnsureRoot ==
    /\ mpc = "ensure"
    /\ localDirs' = localDirs \cup {Segments(args.local_dir)}
    /\ mpc' = "openlog"
    /\ UNCHANGED <<probe, args, overall_success, exit_code, stack, srvCwd, remoteFiles,
                   remoteDirs, allFiles, localFiles, log_file, trace, budget, lsAll, raisedDepth>>

\* line 121 or line 128 raises outside the try: the interpreter exits with 1
SetupRaises ==
    /\ mpc \in {"ensure", "openlog"}
    /\ mpc' = "done"
    /\ exit_code' = 1
    /\ trace' = Append(trace, Ev("raise", NoPath, NoPath, NoPath, NoPath, FALSE, 0))
    /\ UNCHANGED <<probe, args, overall_success, stack, srvCwd, remoteFiles, remoteDirs,
                   allFiles, localFiles, localDirs, log_file, budget, lsAll, raisedDepth>>

\* lines 128-131
OpenLog ==
    /\ mpc = "openlog"
    /\ log_file' = Append(log_file, LogLine("Starting FTP sync", NoPath, NoPath))
    /\ mpc' = "connect"
    /\ UNCHANGED <<probe, args, overall_success, exit_code, stack, srvCwd, remoteFiles,
                   remoteDirs, allFiles, localFiles, localDirs, trace, budget, lsAll, raisedDepth>>

\* line 135
Connect ==
    /\ mpc = "connect"
    /\ mpc' = "login"
    /\ UNCHANGED <<probe, args, overall_success, exit_code, stack, srvCwd, remoteFiles, remoteDirs,
                   allFiles, localFiles, localDirs, log_file, trace, budget, lsAll, raisedDepth>>

\* lines 136-153: login, then the root call of process_directory
Login ==
    /\ mpc = "login"
    /\ log_file' = Append(log_file, LogLine("Connected", NoPath, NoPath))
    /\ stack' = <<Frame(args.remote_dir, args.local_dir, args.delete_remote, args.flatten)>>
    /\ mpc' = "walk"
    /\ UNCHANGED <<probe, args, overall_success, exit_code, srvCwd, remoteFiles, remoteDirs,
                   allFiles, localFiles, localDirs, trace, budget, lsAll, raisedDepth>>

\* line 135, 136 or 157 raises: caught at line 166
ConnectionRaises ==
    /\ mpc \in {"connect", "login", "quit"}
    /\ mpc' = "except"
    /\ trace' = Append(trace, Ev("raise", NoPath, NoPath, NoPath, NoPath, FALSE, 0))
    /\ UNCHANGED <<probe, args, overall_success, exit_code, stack, srvCwd, remoteFiles, remoteDirs,
                   allFiles, localFiles, localDirs, log_file, budget, lsAll, raisedDepth>>

\* lines 157-164: quit succeeds and the closing line is written
Quit ==
    /\ mpc = "quit"
    /\ log_file' = Append(log_file,
          LogLine(IF overall_success THEN "completed successfully" ELSE "completed with errors",
                  NoPath, NoPath))
    /\ mpc' = "exit"
    /\ UNCHANGED <<probe, args, overall_success, exit_code, stack, srvCwd, remoteFiles, remoteDirs,
                   allFiles, localFiles, localDirs, trace, budget, lsAll, raisedDepth>>

\* lines 166-169
Except ==
    /\ mpc = "except"
    /\ log_file' = Append(log_file, LogLine("Error", NoPath, NoPath))
    /\ overall_success' = FALSE
    /\ mpc' = "exit"
    /\ UNCHANGED <<probe, args, exit_code, stack, srvCwd, remoteFiles, remoteDirs,
                   allFiles, localFiles, localDirs, trace, budget, lsAll, raisedDepth>>

\* lines 171-175
Exit ==
    /\ mpc = "exit"
    /\ exit_code' = ExitCode(overall_success)
    /\ mpc' = "done"
    /\ UNCHANGED <<probe, args, overall_success, stack, srvCwd, remoteFiles, remoteDirs,
                   allFiles, localFiles, localDirs, log_file, trace, budget, lsAll, raisedDepth>>

\* ---- process_directory ----
Put(f, k, v) == [x \in DOMAIN f \cup {k} |-> IF x = k THEN v ELSE f[x]]

Prefixes(p) == { SubSeq(p, 1, k) : k \in 1..Len(p) }

\* an exception nothing in process_directory catches: every active frame is
\* abandoned and control lands in the handler of main (line 166); the event
\* names the call that raised
Raise(pc) ==
    /\ At(pc)
    /\ stack' = <<>>
    /\ mpc' = "except"
    /\ raisedDepth' = Depth
    /\ trace' = Append(trace, Ev("raise", Top.remote_dir, <<pc>>, Top.at, NoPath, FALSE, Depth))
    /\ UNCHANGED <<probe, args, overall_success, exit_code, srvCwd, remoteFiles, remoteDirs,
                   allFiles, localFiles, localDirs, log_file, budget, lsAll>>

\* line 23
CwdOk ==
    /\ At("cwd")
    /\ LET target == FtpResolve(srvCwd, Top.remote_dir) IN
       /\ Depth = 1 \/ target \in remoteDirs
       /\ srvCwd' = target
       /\ remoteDirs' = remoteDirs \cup {target}
       /\ stack' = SetTop([Top EXCEPT !.pc = IF ~Top.flatten THEN "mkdir" ELSE "dir",
                                      !.at = target])
       /\ trace' = Append(trace, Ev("enter", Top.remote_dir, Top.local_dir, target, target, TRUE, Depth))
    /\ UNCHANGED <<probe, args, mpc, overall_success, exit_code, remoteFiles, allFiles,
                   localFiles, localDirs, log_file, budget, lsAll, raisedDepth>>

CwdRaises == Raise("cwd")

\* lines 26-27 and 10-13
Mkdir ==
    /\ At("mkdir")
    /\ localDirs' = localDirs \cup Prefixes(Segments(Top.local_dir))
    /\ stack' = SetTop([Top EXCEPT !.pc = "dir"])
    /\ trace' = Append(trace, Ev("mkdir", Top.remote_dir, Top.local_dir, Top.at, NoPath, TRUE, Depth))
    /\ UNCHANGED <<probe, args, mpc, overall_success, exit_code, srvCwd, remoteFiles, remoteDirs,
                   allFiles, localFiles, log_file, budget, lsAll, raisedDepth>>

\* line 13 raises
MkdirRaises ==
    /\ At("mkdir")
    /\ Segments(Top.local_dir) \notin localDirs
    /\ Raise("mkdir")

\* the entries the server may list for the current directory
Count(l, kind) == Cardinality({ j \in 1..Len(l) : l[j].kind = kind })

Listings(n) ==
    { l \in [1..n -> RealEntries(lsAll)] :
        /\ \A j, k \in 1..n : l[j].name = l[k].name => j = k
        /\ Count(l, "file") <= budget.files
        /\ Count(l, "dir") <= budget.dirs }

\* lines 30-31
DirOk ==
    /\ At("dir")
    /\ \E n \in 0..(budget.files + budget.dirs) : \E l \in Listings(n) :
         LET real(kind) == { Append(srvCwd, l[j].name) : j \in { k \in 1..n : l[k].kind = kind } }
             lines == (IF lsAll THEN JunkLines ELSE <<>>) \o l IN
         /\ budget' = [files |-> budget.files - Count(l, "file"),
                       dirs |-> budget.dirs - Count(l, "dir")]
         /\ remoteFiles' = remoteFiles \cup real("file")
         /\ allFiles' = allFiles \cup real("file")
         /\ remoteDirs' = remoteDirs \cup real("dir")
         /\ stack' = SetTop([Top EXCEPT !.pc = "loop", !.i = 1,
                                        !.file_list = [j \in 1..Len(lines) |-> FormatLine(lines[j])]])
         /\ trace' = Append(trace, Ev("list", Top.remote_dir, NoPath, Top.at, srvCwd, TRUE, n))
    /\ UNCHANGED <<probe, args, mpc, overall_success, exit_code, srvCwd, localFiles, localDirs,
                   log_file, lsAll, raisedDepth>>

DirRaises == Raise("dir")

\* lines 34-72: the next item is skipped, recursed into or becomes a transfer
Loop ==
    /\ At("loop")
    /\ Top.i <= Len(Top.file_list)
    /\ IF Skipped(Item)
       THEN /\ stack' = SetTop([Top EXCEPT !.i = @ + 1])
            /\ trace' = trace
       ELSE IF IsDirItem(Item)
       THEN /\ stack' = Append(SetTop([Top EXCEPT !.pc = "call"]),
                               Frame(CurRemotePath,
                                     SubLocalPath(Top.flatten, Top.local_dir, CurName),
                                     SubDeleteRemote(Top.delete_remote),
                                     SubFlatten(Top.flatten)))
            /\ trace' = Append(trace, Ev("recurse", CurRemotePath, NoPath, CurEntry, NoPath, TRUE, Top.i))
       ELSE /\ stack' = SetTop([Top EXCEPT !.pc = "open"])
            /\ trace' = Append(trace, Ev("transfer", CurRemotePath, CurLocalPath, CurEntry, NoPath, TRUE, Top.i))
    /\ UNCHANGED <<probe, args, mpc, overall_success, exit_code, srvCwd, remoteFiles, remoteDirs,
                   allFiles, localFiles, localDirs, log_file, budget, lsAll, raisedDepth>>

\* the bug of leaving the loop when a file raises
HandlerBreaks ==
    /\ log_file' = Append(log_file, LogLine("Error processing", CurRemotePath, NoPath))
    /\ stack' = SetTop([Top EXCEPT !.i = Len(Top.file_list) + 1, !.pc = "loop", !.success = FALSE])

\* lines 93-96: the handler of the per-file try
Handler ==
    /\ log_file' = Append(log_file, LogLine("Error processing", CurRemotePath, NoPath))
    /\ stack' = SetTop(NextItem(Top, FALSE))

\* line 76, open(local_path, 'wb') creates or truncates the file
OpenOk ==
    /\ At("open")
    /\ localFiles' = Put(localFiles, Segments(CurLocalPath), [src |-> NoPath, bytes |-> 0])
    /\ stack' = SetTop([Top EXCEPT !.pc = "retr"])
    /\ trace' = Append(trace, Ev("open", CurRemotePath, CurLocalPath, CurEntry, NoPath, TRUE, 0))
    /\ UNCHANGED <<probe, args, mpc, overall_success, exit_code, srvCwd, remoteFiles, remoteDirs,
                   allFiles, localDirs, log_file, budget, lsAll, raisedDepth>>

OpenRaises ==
    /\ At("open")
    /\ Handler
    /\ trace' = Append(trace, Ev("open", CurRemotePath, CurLocalPath, CurEntry, NoPath, FALSE, 0))
    /\ UNCHANGED <<probe, args, mpc, overall_success, exit_code, srvCwd, remoteFiles, remoteDirs,
                   allFiles, localFiles, localDirs, budget, lsAll, raisedDepth>>

\* lines 76-77, the transfer completes: the local file holds the remote bytes
\* and is closed on leaving the with block
RetrOk ==
    /\ At("retr")
    /\ LET target == FtpResolve(srvCwd, CurName) IN
       /\ target \in remoteFiles
       /\ \E size \in RemoteSizes :
            /\ localFiles' = Put(localFiles, Segments(CurLocalPath), [src |-> target, bytes |-> size])
            /\ trace' = trace \o
                 << Ev("retr", CurRemotePath, CurLocalPath, CurEntry, target, TRUE, size),
                    Ev("close", CurRemotePath, CurLocalPath, CurEntry, NoPath, TRUE, 0) >>
    /\ stack' = SetTop([Top EXCEPT !.pc = "verify"])
    /\ UNCHANGED <<probe, args, mpc, overall_success, exit_code, srvCwd, remoteFiles, remoteDirs,
                   allFiles, localDirs, log_file, budget, lsAll, raisedDepth>>

\* the bug of opening without a with block: the file stays open when RETR raises
RetrRaisesUnclosed ==
    /\ At("retr")
    /\ LET target == FtpResolve(srvCwd, CurName) IN
       /\ localFiles' = Put(localFiles, Segments(CurLocalPath), [src |-> target, bytes |-> 0])
       /\ trace' = Append(trace, Ev("retr", CurRemotePath, CurLocalPath, CurEntry, target, FALSE, 0))
    /\ Handler
    /\ UNCHANGED <<probe, args, mpc, overall_success, exit_code, srvCwd, remoteFiles, remoteDirs,
                   allFiles, localDirs, budget, lsAll, raisedDepth>>

\* line 77 raises before any byte was written: the with block closes the
\* file and the handler runs
RetrRaises ==
    /\ At("retr")
    /\ LET target == FtpResolve(srvCwd, CurName) IN
       /\ localFiles' = Put(localFiles, Segments(CurLocalPath), [src |-> target, bytes |-> 0])
       /\ trace' = trace \o
            << Ev("retr", CurRemotePath, CurLocalPath, CurEntry, target, FALSE, 0),
               Ev("close", CurRemotePath, CurLocalPath, CurEntry, NoPath, FALSE, 0) >>
    /\ Handler
    /\ UNCHANGED <<probe, args, mpc, overall_success, exit_code, srvCwd, remoteFiles, remoteDirs,
                   allFiles, localDirs, budget, lsAll, raisedDepth>>

\* lines 80-92
Verify ==
    /\ At("verify")
    /\ LET key == Segments(CurLocalPath)
           exists == key \in DOMAIN localFiles
           pass == Verified(exists, IF exists THEN localFiles[key].bytes ELSE 0) IN
       /\ trace' = Append(trace, Ev("verify", CurRemotePath, CurLocalPath, CurEntry, NoPath, pass, 0))
       /\ IF pass /\ DeleteWanted(Top.delete_remote)
          THEN /\ stack' = SetTop([Top EXCEPT !.pc = "dele"])
               /\ log_file' = log_file
          ELSE IF pass
          THEN /\ stack' = SetTop(NextItem(Top, Top.success))
               /\ log_file' = Append(log_file, LogLine("Downloaded", CurRemotePath, CurLocalPath))
          ELSE /\ stack' = SetTop(NextItem(Top, FALSE))
               /\ log_file' = Append(log_file, LogLine("Download failed", CurRemotePath, NoPath))
    /\ UNCHANGED <<probe, args, mpc, overall_success, exit_code, srvCwd, remoteFiles, remoteDirs,
                   allFiles, localFiles, localDirs, budget, lsAll, raisedDepth>>

\* lines 83-85
DeleOk ==
    /\ At("dele")
    /\ LET target == FtpResolve(srvCwd, CurName) IN
       /\ target \in remoteFiles
       /\ remoteFiles' = remoteFiles \ {target}
       /\ trace' = Append(trace, Ev("dele", CurRemotePath, CurLocalPath, CurEntry, target, TRUE, 0))
    /\ log_file' = Append(log_file, LogLine("Downloaded and deleted", CurRemotePath, CurLocalPath))
    /\ stack' = SetTop(NextItem(Top, Top.success))
    /\ UNCHANGED <<probe, args, mpc, overall_success, exit_code, srvCwd, remoteDirs,
                   allFiles, localFiles, localDirs, budget, lsAll, raisedDepth>>

\* line 83 raises
DeleRaises ==
    /\ At("dele")
    /\ trace' = Append(trace, Ev("dele", CurRemotePath, CurLocalPath, CurEntry,
                                 FtpResolve(srvCwd, CurName), FALSE, 0))
    /\ Handler
    /\ UNCHANGED <<probe, args, mpc, overall_success, exit_code, srvCwd, remoteFiles, remoteDirs,
                   allFiles, localFiles, localDirs, budget, lsAll, raisedDepth>>

\* the loop is over (line 34): lines 98-101, and the caller's use of the
\* result (57-58, 62-63, 153-154)
LeaveOk ==
    /\ At("loop")
    /\ Top.i > Len(Top.file_list)
    /\ srvCwd' = FtpResolve(srvCwd, ParentArg)
    /\ trace' = Append(trace, Ev("return", Top.remote_dir, Top.local_dir, Top.at, srvCwd', Top.success, Depth))
    /\ IF Depth = 1
       THEN /\ stack' = <<>>
            /\ overall_success' = AfterChild(overall_success, Top.success)
            /\ mpc' = "quit"
       ELSE /\ stack' = Append(SubSeq(stack, 1, Depth - 2),
                               NextItem(stack[Depth - 1],
                                        AfterChild(stack[Depth - 1].success, Top.success)))
            /\ UNCHANGED <<overall_success, mpc>>
    /\ UNCHANGED <<probe, args, exit_code, remoteFiles, remoteDirs, allFiles, localFiles,
                   localDirs, log_file, budget, lsAll, raisedDepth>>

LeaveRaises ==
    /\ At("loop")
    /\ Top.i > Len(Top.file_list)
    /\ Raise("loop")

Next ==
    \/ ParseArgs \/ EnsureRoot \/ SetupRaises \/ OpenLog \/ Connect \/ Login
    \/ ConnectionRaises \/ Quit \/ Except \/ Exit
    \/ CwdOk \/ CwdRaises \/ Mkdir \/ MkdirRaises \/ DirOk \/ DirRaises \/ Loop
    \/ OpenOk \/ OpenRaises \/ RetrOk \/ RetrRaises \/ Verify
    \/ DeleOk \/ DeleRaises \/ LeaveOk \/ LeaveRaises

Spec == Init /\ [][Next]_vars

SpecPaths == InitPaths /\ [][Next]_vars

\* ---- the flatten mapping as a function of the remote path ----
\* lines 47-50 and 59: one more name below the directory of p
DescendP ==
    /\ probe.pc = "build"
    /\ Len(probe.ps) < MaxSegs
    /\ \E name \in PathNames :
          probe' = [probe EXCEPT !.p = RemotePath(@, name), !.ps = Append(@, name)]
    /\ UNCHANGED runVars

\* lines 47-50 and 59: one more name below the directory of q
DescendQ ==
    /\ probe.pc = "build"
    /\ Len(probe.qs) < MaxSegs
    /\ \E name \in PathNames :
          probe' = [probe EXCEPT !.q = RemotePath(@, name), !.qs = Append(@, name)]
    /\ UNCHANGED runVars

\* lines 66-70 with flatten set, for the file p and for the file q
FlattenBoth ==
    /\ probe.pc = "build"
    /\ probe.ps # <<>> /\ probe.qs # <<>>
    /\ probe' = [probe EXCEPT
                    !.pc = "mapped",
                    !.lp = LocalPath(TRUE, probe.local_dir, probe.p, probe.ps[Len(probe.ps)]),
                    !.lq = LocalPath(TRUE, probe.local_dir, probe.q, probe.qs[Len(probe.qs)])]
    /\ UNCHANGED runVars

NextFlatten == DescendP \/ DescendQ \/ FlattenBoth

SpecFlatten == InitFlatten /\ [][NextFlatten]_vars

TypeOK ==
    /\ exit_code \in {-1, 0, 1}
    /\ budget.files \in 0..MaxFiles
    /\ budget.dirs \in 0..MaxDirs
    /\ Depth <= MaxDirs + 1

\* ---- reading the history ----
Idx == 1..Len(trace)
Has(op) == { k \in Idx : trace[k].op = op }
IsPrefix(p, q) == Len(p) <= Len(q) /\ SubSeq(q, 1, Len(p)) = p
IsChild(p, q) == Len(q) = Len(p) + 1 /\ IsPrefix(p, q)

\* the file was retrieved without exception, verified and, when asked, deleted
FileFine(f) ==
    /\ \E k \in Has("retr") : trace[k].at = f /\ trace[k].ok
    /\ \E k \in Has("verify") : trace[k].at = f /\ trace[k].ok
    /\ args.delete_remote => \E k \in Has("dele") : trace[k].at = f /\ trace[k].ok

\* some step of the file's transfer raised, or its verification failed
FileFailed(f) ==
    \E k \in Has("open") \cup Has("retr") \cup Has("verify") \cup Has("dele") :
        trace[k].at = f /\ ~trace[k].ok

\* C1: the value process_directory returns for a directory is TRUE exactly
\* when every file the server listed anywhere under it was retrieved, verified
\* and (when delete_remote is set) deleted without exception; and it is the
\* conjunction of the frame's own file outcomes and its child frames' results.
C1_ResultIsConjunction ==
    \A k \in Has("return") :
        LET d == trace[k].at IN
        /\ trace[k].ok <=> \A f \in allFiles : IsPrefix(d, f) => FileFine(f)
        /\ trace[k].ok <=>
             /\ \A f \in allFiles : IsChild(d, f) => FileFine(f)
             /\ \A c \in remoteDirs : IsChild(d, c) =>
                  \E j \in Has("return") : j < k /\ trace[j].at = c /\ trace[j].ok

\* a root call that returned FALSE only because a file of a subdirectory failed
C1_Witness ==
    \E k \in Has("return") :
        /\ trace[k].n = 1 /\ ~trace[k].ok
        /\ \E f \in allFiles : IsChild(trace[k].at, f)
        /\ \A f \in allFiles : IsChild(trace[k].at, f) => FileFine(f)
        /\ \E j \in Has("return") : j < k /\ ~trace[j].ok

\* C2: exit code 0 only when the whole tree was walked and every file was
\* transferred, verified and (if asked) deleted without error; exit code 1
\* whenever a file failed or a call of main or of the walk raised.
C2_ExitCode ==
    /\ exit_code = 0 =>
         /\ \A f \in allFiles : FileFine(f)
         /\ \A d \in remoteDirs : \E k \in Has("list") : trace[k].at = d
         /\ Has("raise") = {}
    /\ (exit_code # -1 /\ (Has("raise") # {} \/ \E f \in allFiles : FileFailed(f)))
         => exit_code = 1

\* exit code 0 after the transfer and deletion of a file in a subdirectory
C2_Witness ==
    /\ exit_code = 0
    /\ args.delete_remote
    /\ \E f \in allFiles : Len(f) >= 2

\* C3: a remote delete is issued only for a file whose retrieve completed
\* without exception and whose verification passed; never for a file whose
\* verification failed or whose transfer raised.
C3_DeleteOnlyVerified ==
    \A k \in Has("dele") :
        /\ \E j \in Has("retr") :
             j < k /\ trace[j].at = trace[k].at /\ trace[j].ok
                   /\ trace[j].target = trace[k].target /\ trace[j].n > 0
        /\ \E j \in Has("verify") : j < k /\ trace[j].at = trace[k].at /\ trace[j].ok
        /\ \A j \in 1..(k - 1) : trace[j].at = trace[k].at => trace[j].ok

C3_Witness == \E k \in Has("dele") : trace[k].ok /\ Len(trace[k].at) >= 2

\* C4: the delete_remote flag of every frame is the one given on the command
\* line, and when it is false no delete is issued at any depth and the set of
\* remote files stays what the listings showed.
C4_NoDeleteWithoutFlag ==
    /\ \A d \in 1..Depth : stack[d].delete_remote = args.delete_remote
    /\ ~args.delete_remote => (Has("dele") = {} /\ remoteFiles = allFiles)

\* a run without the flag that downloaded a file of a subdirectory
C4_Witness ==
    /\ ~args.delete_remote
    /\ exit_code = 0
    /\ \E f \in allFiles : Len(f) >= 2 /\ FileFine(f)

Dispatched(e, k) ==
    \E j \in Has("transfer") \cup Has("recurse") : j < k /\ trace[j].at = e

\* the last call made in this step belongs to a file and failed
FileFailsNow ==
    /\ Len(trace') > Len(trace)
    /\ trace'[Len(trace')].op \in {"open", "close", "verify", "dele"}
    /\ ~trace'[Len(trace')].ok

C5_Returned ==
    \A k \in Has("return") :
        LET d == trace[k].at IN
        /\ \A e \in allFiles \cup remoteDirs : IsChild(d, e) => Dispatched(e, k)
        /\ (\E f \in allFiles : IsChild(d, f) /\ FileFailed(f)) => ~trace[k].ok

C5_Active ==
    \A d \in 1..Depth :
        (stack[d].pc # "cwd" /\ \E f \in allFiles : IsChild(stack[d].at, f) /\ FileFailed(f))
            => ~stack[d].success

C5_Step ==
    FileFailsNow =>
        /\ mpc' = "walk"
        /\ Len(stack') = Depth
        /\ stack'[Depth].pc = "loop"
        /\ stack'[Depth].i = Top.i + 1
        /\ stack'[Depth].file_list = Top.file_list
        /\ ~stack'[Depth].success

C6_NoExceptionCrossesFrames == \A k \in Has("raise") : trace[k].n <= 1

ParentOfDir(p) ==
    IF Segments(p) = <<>> THEN <<>> ELSE SubSeq(Segments(p), 1, Len(Segments(p)) - 1)

\* C7: when process_directory returns for a directory, the connection's
\* current directory is that directory's parent, whatever failed below it.
C7_CursorAtParent ==
    \A k \in Has("return") : trace[k].target = ParentOfDir(trace[k].rp)

\* a subdirectory's call returned FALSE
C7_Witness ==
    \E k \in Has("return") : trace[k].n >= 2 /\ ~trace[k].ok /\ Len(trace[k].at) >= 1

HasLog(msg, rp) == \E l \in 1..Len(log_file) : log_file[l].msg = msg /\ log_file[l].rp = rp

\* C8: a zero-byte remote file whose retrieve raised nothing is logged as
\* "Download failed", is never deleted remotely, and every frame from its
\* directory up to the root returns FALSE.
C8_EmptyFileFails ==
    \A k \in Has("retr") :
        (trace[k].ok /\ trace[k].n = 0) =>
            /\ \A j \in Has("dele") : trace[j].at # trace[k].at
            /\ \A l \in 1..Len(log_file) :
                 log_file[l].rp = trace[k].rp => log_file[l].msg = "Download failed"
            /\ (\E j \in Has("verify") : trace[j].at = trace[k].at)
                 => HasLog("Download failed", trace[k].rp)
            /\ \A r \in Has("return") : IsPrefix(trace[r].at, trace[k].at) => ~trace[r].ok

\* an empty file of a subdirectory, after the root call returned
C8_Witness ==
    /\ \E k \in Has("retr") : trace[k].ok /\ trace[k].n = 0 /\ Len(trace[k].at) >= 2
    /\ \E r \in Has("return") : trace[r].n = 1

\* sanitize as the specification words it: one leading separator is dropped
SpecSanitize(p) == Replace(IF StartsWith(p, "/") THEN Tail(p) ELSE p, "/", "_")

\* C9: in flatten mode a remote file is written to the flatten root under the
\* name sanitize(remote path), sanitize dropping a single leading separator
\* and turning every other separator into an underscore.
C9_FlattenName ==
    \A k \in Has("open") :
        args.flatten => trace[k].lp = OsPathJoin(args.local_dir, SpecSanitize(trace[k].rp))

\* the part of a remote location below the configured root
BelowRoot(at) == SubSeq(at, Len(Segments(args.remote_dir)) + 1, Len(at))
Mirror(at) == Segments(args.local_dir) \o BelowRoot(at)

\* C10: without flatten, every remote directory visited gets exactly the
\* local directory localRoot/p1/.../pk of its relative path, and every file
\* is written to localRoot/p1/.../pk/name.
C10_Mirror ==
    ~args.flatten =>
        /\ \A k \in Has("mkdir") :
             /\ Segments(trace[k].lp) = Mirror(trace[k].at)
             /\ StartsWith(trace[k].lp, "/") = StartsWith(args.local_dir, "/")
             /\ Mirror(trace[k].at) \in localDirs
             /\ \A j \in Has("mkdir") : trace[j].at = trace[k].at => j = k
        /\ \A k \in Has("list") : \E j \in Has("mkdir") : j < k /\ trace[j].at = trace[k].at
        /\ \A k \in Has("open") :
             /\ trace[k].at \in allFiles
             /\ Segments(trace[k].lp) = Mirror(trace[k].at)
             /\ StartsWith(trace[k].lp, "/") = StartsWith(args.local_dir, "/")
             /\ trace[k].ok => Mirror(trace[k].at) \in DOMAIN localFiles

\* a file of a subdirectory was opened below a configured root other than "/"
C10_Witness ==
    /\ ~args.flatten
    /\ Segments(args.remote_dir) # <<>>
    /\ \E k \in Has("open") : trace[k].ok /\ Len(BelowRoot(trace[k].at)) >= 2
Last(s) == s[Len(s)]

\* C11: a run that wrote the session-start line has written a session-end
\* line ("completed successfully" or "completed with errors") when it exits.
C11_EndBanner ==
    (mpc = "done" /\ HasLog("Starting FTP sync", NoPath)) =>
        Last(log_file).msg \in {"completed successfully", "completed with errors"}
\* C12: whenever a frame dispatches its next entry, retrieves or deletes, the
\* connection's current directory is the frame's remote_dir, so that the bare
\* name of RETR and DELE leads to the remote_path that is logged.
C12_CursorIsFrameDir ==
    /\ (mpc = "walk" /\ Depth > 0 /\ Top.pc \in {"loop", "open", "retr", "verify", "dele"})
          => srvCwd = Segments(Top.remote_dir)
    /\ \A k \in Has("retr") \cup Has("dele") : trace[k].target = Segments(trace[k].rp)

\* the root frame retrieves a file after a call for a subdirectory returned
C12_Witness == At("retr") /\ Depth = 1 /\ Has("return") # {}
\* C13: a frame whose cwd into remote_dir succeeded is either still active
\* or has done its cwd('..'), whichever way control left it.
C13_EnteredFramesLeave ==
    \A k \in Has("enter") :
        \/ \E d \in 1..Depth : stack[d].pc # "cwd" /\ stack[d].at = trace[k].at
        \/ \E j \in Has("return") : j > k /\ trace[j].at = trace[k].at
\* the entry a listing line stands for, in the words of the specification
IsEntryLine(item) ==
    /\ Len(Tokens(item)) >= 9
    /\ JoinWith(SubSeq(Tokens(item), 9, Len(Tokens(item))), " ") \notin { <<".">>, <<".", ".">> }

EntryOf(item) == Append(Top.at, JoinWith(SubSeq(Tokens(item), 9, Len(Tokens(item))), " "))

C14_Step ==
    (At("loop") /\ Top.i <= Len(Top.file_list)) =>
        IF ~IsEntryLine(Item)
        THEN /\ stack' = SetTop([Top EXCEPT !.i = @ + 1])
             /\ UNCHANGED <<trace, log_file, localFiles, localDirs, remoteFiles, srvCwd,
                            overall_success, mpc>>
        ELSE /\ Len(trace') = Len(trace) + 1
             /\ trace'[Len(trace')].at = EntryOf(Item)
             /\ log_file' = log_file
             /\ IF Item[1] = "d"
                THEN /\ trace'[Len(trace')].op = "recurse"
                     /\ Len(stack') = Depth + 1
                     /\ stack'[Depth + 1].pc = "cwd"
                ELSE /\ trace'[Len(trace')].op = "transfer"
                     /\ Len(stack') = Depth
                     /\ stack'[Depth].pc = "open"

C14_Listed ==
    /\ \A k \in Has("transfer") : trace[k].at \in allFiles
    /\ \A k \in Has("recurse") : trace[k].at \in remoteDirs

\* C14: a listing line is dispatched exactly when it has at least 9 tokens
\* and its name (tokens 8 onward joined by single spaces) is neither "." nor
\* ".."; it is recursed into exactly when its first character is "d" and
\* transferred otherwise; a skipped line changes nothing but the loop index.
C14_ParserDispatch == []C14_Listed /\ [][C14_Step]_vars

\* a listing with total, ".", ".." and an 8-field line, of which a file whose
\* name has a space was transferred and a directory recursed into
C14_Witness ==
    /\ lsAll
    /\ \E k \in Has("transfer") : Last(trace[k].at) = <<"a", " ", "a">>
    /\ Has("recurse") # {}
    /\ \E k \in Has("return") : trace[k].n = 1
SameFile(j, k) == trace[j].at = trace[k].at /\ trace[j].lp = trace[k].lp

\* C15: for each file the calls come in the order open (truncating), RETR,
\* close, verification, and DELE only after a passed verification with
\* delete_remote; the file is closed also when RETR raises, and it is never
\* verified before it is closed.
C15_FileCallOrder ==
    \A k \in Idx :
        /\ trace[k].op = "open" =>
             /\ k > 1 /\ trace[k - 1].op = "transfer" /\ SameFile(k - 1, k)
             /\ (k = Len(trace) /\ trace[k].ok) =>
                  (At("retr") /\ localFiles[Segments(trace[k].lp)].bytes = 0)
        /\ trace[k].op = "retr" =>
             /\ trace[k - 1].op = "open" /\ trace[k - 1].ok /\ SameFile(k - 1, k)
             /\ k < Len(trace) /\ trace[k + 1].op = "close"
        /\ trace[k].op = "close" =>
             /\ trace[k - 1].op = "retr" /\ SameFile(k - 1, k)
             /\ trace[k].ok = trace[k - 1].ok
        /\ trace[k].op = "verify" =>
             trace[k - 1].op = "close" /\ trace[k - 1].ok /\ SameFile(k - 1, k)
        /\ trace[k].op = "dele" =>
             /\ trace[k - 1].op = "verify" /\ trace[k - 1].ok /\ SameFile(k - 1, k)
             /\ args.delete_remote

\* one file was closed after RETR raised, another was deleted after verification
C15_Witness ==
    /\ \E k \in Has("close") : ~trace[k].ok
    /\ \E k \in Has("dele") : trace[k].ok
\* C16: in flatten mode every frame's local_dir is the flatten root handed
\* to the root call, process_directory creates no local directory, and every
\* file is written directly inside the flatten root.
C16_FlattenStaysInRoot ==
    args.flatten =>
        /\ \A d \in 1..Depth : stack[d].local_dir = args.local_dir
        /\ Has("mkdir") = {}
        /\ localDirs \subseteq {Segments(args.local_dir)}
        /\ \A k \in Has("open") :
             /\ Len(Segments(trace[k].lp)) = Len(Segments(args.local_dir)) + 1
             /\ SubSeq(Segments(trace[k].lp), 1, Len(Segments(args.local_dir)))
                    = Segments(args.local_dir)
             /\ StartsWith(trace[k].lp, "/") = StartsWith(args.local_dir, "/")
        /\ \A p \in DOMAIN localFiles :
             /\ Len(p) = Len(Segments(args.local_dir)) + 1
             /\ SubSeq(p, 1, Len(p) - 1) = Segments(args.local_dir)

\* flatten mode wrote a file of a subdirectory into the flatten root
C16_Witness ==
    /\ args.flatten
    /\ Depth = 2
    /\ \E k \in Has("open") : trace[k].ok /\ Len(BelowRoot(trace[k].at)) >= 2
NoUnderscore(names) == \A i \in 1..Len(names) : \A j \in 1..Len(names[i]) : names[i][j] # "_"

\* C17: in flatten mode two different remote paths below the same root whose
\* segments contain no underscore get different local names; in particular
\* files of the same name in different directories do.
C17_FlattenInjective ==
    (/\ probe.pc = "mapped"
     /\ NoUnderscore(probe.ps) /\ NoUnderscore(probe.qs)
     /\ probe.ps # probe.qs) => probe.lp # probe.lq

\* two files of the same name in different directories were mapped
C17_Witness ==
    /\ probe.pc = "mapped"
    /\ NoUnderscore(probe.ps) /\ NoUnderscore(probe.qs)
    /\ Len(probe.ps) = 3 /\ Len(probe.qs) = 2
    /\ probe.ps[3] = probe.qs[2]
    /\ probe.ps[1] # probe.qs[1]
    /\ probe.lp # probe.lq
\* the calls of process_directory that raised out of it
RaisedIn == { trace[k].lp[1] : k \in { j \in Has("raise") : trace[j].n >= 1 } }

Once(op, at) == Cardinality({ k \in Has(op) : trace[k].at = at }) = 1

\* every directory known was entered once, every file listed was tried once
WalkedAll ==
    /\ \A d \in remoteDirs : Once("enter", d)
    /\ \A f \in allFiles : Once("transfer", f)

\* C18: when no change-directory call (lines 23, 99) and no listing call
\* (line 31) raises, the process exits only after the root call has returned,
\* and by then each remote directory was entered exactly once and each listed
\* file was tried exactly once.
C18_WalkCompletes ==
    (mpc = "done" /\ Has("enter") # {} /\ RaisedIn \cap {"cwd", "dir", "loop"} = {}) =>
        /\ \E k \in Has("return") : trace[k].n = 1
        /\ WalkedAll

\* the same walk when the local directory creation (line 27) does not raise either
C18_WalkCompletesUnlessRaised ==
    (mpc = "done" /\ Has("enter") # {} /\ RaisedIn = {}) =>
        /\ \E k \in Has("return") : trace[k].n = 1
        /\ WalkedAll
\* the local copy of the deleted remote file of event k is intact: it holds
\* bytes retrieved from that file, and no transfer of another remote file has
\* opened its path since
Kept(k) ==
    /\ Segments(trace[k].lp) \in DOMAIN localFiles
    /\ localFiles[Segments(trace[k].lp)].src = trace[k].at
    /\ localFiles[Segments(trace[k].lp)].bytes > 0
    /\ \A j \in Has("open") :
         (j > k /\ Segments(trace[j].lp) = Segments(trace[k].lp)) => trace[j].at = trace[k].at

Deleted == { k \in Has("dele") : trace[k].ok }

\* C19 as stated: with delete_remote, in flatten and in non-flatten mode,
\* every deleted remote file keeps a local copy that no transfer of a
\* different remote file opens afterwards.
C19_NoDataLost == args.delete_remote => \A k \in Deleted : Kept(k)

\* the name sanitizing gives a file at a location below the root "/"
FlatName(f) == JoinWith(f, "_")

\* no two remote files listed so far flatten to the same name
NoCollision == \A f, g \in allFiles : f # g => FlatName(f) # FlatName(g)

\* C19 amended: the same, in non-flatten mode always and in flatten mode when
\* no two remote files of the run flatten to the same name.
C19_NoDataLostUnlessCollision ==
    (args.delete_remote /\ (args.flatten => NoCollision)) => \A k \in Deleted : Kept(k)

\* a flattening run deleted a file of the root and a file of a subdirectory
C19_Witness ==
    /\ args.flatten /\ args.delete_remote
    /\ NoCollision
    /\ exit_code = 0
    /\ \E j, k \in Deleted : Len(trace[j].at) = 1 /\ Len(trace[k].at) = 2
====
